---- MODULE Spec2Model ----
(***************************************************************************)
(* Model of function_app.py: five HTTP POST handlers over one table of     *)
(* tickets and one chat-completion client.                                 *)
(*                                                                         *)
(* Text is a sequence of string chunks.  Identifiers are chunked one       *)
(* character per element, because slicing and upper-casing act on their    *)
(* characters; fixed messages and opaque request values are one chunk.     *)
(* The empty string is <<>>.                                               *)
(***************************************************************************)
EXTENDS Integers, Sequences, FiniteSets, TLC

\* Number of distinct 8-character prefixes among the uuids that can be drawn.
MaxIds == 2
\* Number of successful creations recorded in one execution.
MaxCreated == 2

\* uuid.uuid4().hex is 32 hexadecimal characters; the handlers keep hex[:8].
UuidHexLen == 32
HexPrefixLen == 8

(***************************************************************************)
(* Python values that flow through the handlers.                           *)
(***************************************************************************)
None == [t |-> "None", v |-> <<>>]
PyTrue == [t |-> "True", v |-> <<>>]
Str(s) == [t |-> "str", v |-> s]

\* Truth value of `not x` for the values modelled (None and "" are falsy).
falsy(x) == x.t = "None" \/ (x.t = "str" /\ x.v = <<>>)

(***************************************************************************)
(* uuid.uuid4().hex, str.upper and the two identifier formats.             *)
(***************************************************************************)
HexDigits == <<"0", "1", "2", "3", "4", "5", "6", "7", "8", "9",
               "a", "b", "c", "d", "e", "f">>

UpperHexChars == {"0", "1", "2", "3", "4", "5", "6", "7", "8", "9",
                  "A", "B", "C", "D", "E", "F"}

upper_char(c) ==
    CASE c = "a" -> "A" [] c = "b" -> "B" [] c = "c" -> "C"
      [] c = "d" -> "D" [] c = "e" -> "E" [] c = "f" -> "F"
      [] OTHER -> c

upper(s) == [i \in DOMAIN s |-> upper_char(s[i])]

\* A version-4 uuid in hex: 32 lower-case hex digits, digit 13 is the
\* version "4" and digit 17 the variant.  The pool holds one uuid for each
\* of MaxIds leading digits, and one more that differs from the first only
\* after the eighth character.
uuid_hex(lead, rest) ==
    [k \in 1..UuidHexLen |->
        IF k <= HexPrefixLen THEN HexDigits[lead]
        ELSE IF k = 13 THEN "4"
        ELSE IF k = 17 THEN "8"
        ELSE HexDigits[rest]]

LeadDigits == 10..(9 + MaxIds)

uuid4_hex == {uuid_hex(lead, 1) : lead \in LeadDigits} \cup {uuid_hex(10, 16)}

new_ticket_id_lower(hex) ==
    Str(<<"I", "N", "C", "-">> \o SubSeq(hex, 1, HexPrefixLen))

new_ticket_id(hex) ==
    Str(<<"I", "N", "C", "-">> \o upper(SubSeq(hex, 1, HexPrefixLen)))

new_workflow_id(hex) ==
    Str(<<"W", "F", "-">> \o upper(SubSeq(hex, 1, HexPrefixLen)))

TicketIds == {new_ticket_id(h) : h \in uuid4_hex}
WorkflowIds == {new_workflow_id(h) : h \in uuid4_hex}

(***************************************************************************)
(* Requests: req.get_json() and body.get(key).                             *)
(***************************************************************************)
Absent == [t |-> "absent", v |-> <<>>]

InvalidJSON == [kind |-> "invalid", obj |-> <<>>]
\* A body that parses but is not a JSON object (a list, a string, null).
NonObject == [kind |-> "array", obj |-> <<>>]
Object(o) == [kind |-> "object", obj |-> o]

Object1(f, a) ==
    Object([k \in {g \in {f} : a # Absent} |-> a])

Object2(f1, a, f2, b) ==
    Object([k \in {g \in {f1, f2} : (IF g = f1 THEN a ELSE b) # Absent}
              |-> IF k = f1 THEN a ELSE b])

\* req.get_json(): raises ValueError when the body is not JSON.
get_json_raises(req) == req.kind = "invalid"

\* body.get(key) exists only on a dict; on any other parsed body the
\* attribute lookup raises AttributeError.
has_get(req) == req.kind = "object"

body_get(req, key) ==
    IF key \in DOMAIN req.obj THEN req.obj[key] ELSE None

(***************************************************************************)
(* Responses.                                                              *)
(***************************************************************************)
json_response(body, status_code) ==
    [exception |-> "none", status_code |-> status_code,
     mimetype |-> "application/json", body |-> body]

\* An exception that leaves the handler: no HttpResponse is returned.
Escapes(e) ==
    [exception |-> e, status_code |-> 0, mimetype |-> "", body |-> <<>>]

\* What one handler run did: its response, the table it leaves, the outbound
\* calls it made, the identifier it generated and the collaborator's outcome.
Result(resp, tbl, calls, generated, outcome) ==
    [resp |-> resp, table |-> tbl, calls |-> calls,
     generated |-> generated, outcome |-> outcome]

(***************************************************************************)
(* The table client.  A table maps <<PartitionKey, RowKey>> to an entity,  *)
(* a dictionary of properties.                                             *)
(***************************************************************************)
TicketsPartition == <<"Tickets">>

\* How a call to upsert_entity can end: it returns; it raises and the store
\* holds no write; it raises although the store applied the write (the
\* answer was lost).
UpsertOutcomes == {"ok", "error_not_applied", "error_applied"}

\* How a call to get_entity can end: the store answers (entity or not
\* found), or the call raises another error.
ReadOutcomes == {"answer", "error"}

entity_key(entity) == <<entity["PartitionKey"].v, entity["RowKey"].v>>

\* upsert_entity(entity) in its default mode (merge): written properties
\* replace the stored ones, other stored properties stay.
merged_entity(tbl, entity) ==
    IF entity_key(entity) \in DOMAIN tbl
    THEN [p \in DOMAIN tbl[entity_key(entity)] \cup DOMAIN entity |->
            IF p \in DOMAIN entity THEN entity[p]
            ELSE tbl[entity_key(entity)][p]]
    ELSE entity

upsert_entity(tbl, entity, outcome) ==
    [table |-> IF outcome \in {"ok", "error_applied"}
               THEN [k \in DOMAIN tbl \cup {entity_key(entity)} |->
                        IF k = entity_key(entity)
                        THEN merged_entity(tbl, entity) ELSE tbl[k]]
               ELSE tbl,
     raised |-> outcome # "ok"]

get_entity_any_partition(tbl, partition_key, row_key, outcome) ==
    IF outcome = "error"
    THEN [raised |-> "HttpResponseError", entity |-> <<>>]
    ELSE IF \E k \in DOMAIN tbl : k[2] = row_key
    THEN [raised |-> "none",
          entity |-> tbl[CHOOSE k \in DOMAIN tbl : k[2] = row_key]]
    ELSE [raised |-> "ResourceNotFoundError", entity |-> <<>>]

get_entity(tbl, partition_key, row_key, outcome) ==
    IF outcome = "error"
    THEN [raised |-> "HttpResponseError", entity |-> <<>>]
    ELSE IF <<partition_key, row_key>> \in DOMAIN tbl
    THEN [raised |-> "none", entity |-> tbl[<<partition_key, row_key>>]]
    ELSE [raised |-> "ResourceNotFoundError", entity |-> <<>>]

(***************************************************************************)
(* 1) create_ticket                                                        *)
(***************************************************************************)
create_ticket_invalid_and(user_id, issue_description) ==
    falsy(user_id) /\ falsy(issue_description)

create_ticket_invalid(user_id, issue_description) ==
    falsy(user_id) \/ falsy(issue_description)

create_ticket_entity(ticket_id, user_id, issue_description, status) ==
    [PartitionKey |-> Str(TicketsPartition), RowKey |-> ticket_id,
     user_id |-> user_id, issue_description |-> issue_description,
     status |-> status]

create_ticket_reply_always_ok(raised, ticket_id, status) ==
    json_response([ticket_id |-> ticket_id, status |-> status], 200)

\* The except branch of the save and the final return.
create_ticket_reply(raised, ticket_id, status) ==
    IF raised
    THEN json_response([error |-> Str(<<"Error saving ticket in storage">>)],
                       500)
    ELSE json_response([ticket_id |-> ticket_id, status |-> status], 200)

create_ticket(req, tbl, hex, outcome) ==
    IF get_json_raises(req)
    THEN Result(json_response([error |-> Str(<<"Invalid JSON body">>)], 400),
                tbl, <<>>, None, "none")
    ELSE IF ~has_get(req)
    THEN Result(Escapes("AttributeError"), tbl, <<>>, None, "none")
    ELSE IF create_ticket_invalid(body_get(req, "user_id"),
                                  body_get(req, "issue_description"))
    THEN Result(json_response(
                  [error |-> Str(<<"Missing required fields: user_id, issue_description">>)],
                  400),
                tbl, <<>>, None, "none")
    ELSE LET ticket_id == new_ticket_id(hex)
             status == Str(<<"OPEN">>)
             entity == create_ticket_entity(ticket_id,
                           body_get(req, "user_id"),
                           body_get(req, "issue_description"), status)
             saved == upsert_entity(tbl, entity, outcome)
         IN  Result(create_ticket_reply(saved.raised, ticket_id, status),
                    saved.table, <<"upsert_entity">>, ticket_id, outcome)

(***************************************************************************)
(* 2) get_ticket_status                                                    *)
(***************************************************************************)
entity_status_default_open(entity) ==
    IF "status" \in DOMAIN entity THEN entity["status"] ELSE Str(<<"OPEN">>)

\* entity.get("status", "UNKNOWN")
entity_status(entity) ==
    IF "status" \in DOMAIN entity THEN entity["status"]
    ELSE Str(<<"UNKNOWN">>)

get_ticket_status(req, tbl, outcome) ==
    IF get_json_raises(req)
    THEN Result(json_response([error |-> Str(<<"Invalid JSON body">>)], 400),
                tbl, <<>>, None, "none")
    ELSE IF ~has_get(req)
    THEN Result(Escapes("AttributeError"), tbl, <<>>, None, "none")
    ELSE IF falsy(body_get(req, "ticket_id"))
    THEN Result(json_response(
                  [error |-> Str(<<"Missing required field: ticket_id">>)],
                  400),
                tbl, <<>>, None, "none")
    ELSE LET ticket_id == body_get(req, "ticket_id")
             found == get_entity(tbl, TicketsPartition, ticket_id.v, outcome)
         IN  IF found.raised = "none"
             THEN Result(json_response(
                           [ticket_id |-> ticket_id,
                            status |-> entity_status(found.entity)], 200),
                         tbl, <<"get_entity">>, None, outcome)
             ELSE IF found.raised = "ResourceNotFoundError"
             THEN Result(json_response(
                           [error |-> Str(<<"Ticket not found">>)], 404),
                         tbl, <<"get_entity">>, None, outcome)
             ELSE Result(Escapes(found.raised), tbl, <<"get_entity">>,
                         None, outcome)

(***************************************************************************)
(* 3) send_notification                                                    *)
(***************************************************************************)
send_notification(req, tbl) ==
    IF get_json_raises(req)
    THEN Result(json_response([error |-> Str(<<"Invalid JSON body">>)], 400),
                tbl, <<>>, None, "none")
    ELSE IF ~has_get(req)
    THEN Result(Escapes("AttributeError"), tbl, <<>>, None, "none")
    ELSE IF falsy(body_get(req, "user_id")) \/ falsy(body_get(req, "message"))
    THEN Result(json_response(
                  [error |-> Str(<<"Missing required fields: user_id, message">>)],
                  400),
                tbl, <<>>, None, "none")
    ELSE Result(json_response([success |-> PyTrue], 200),
                tbl, <<>>, None, "none")

(***************************************************************************)
(* 4) start_provisioning_workflow                                          *)
(***************************************************************************)
start_provisioning_workflow_persisting(req, tbl, hex) ==
    IF get_json_raises(req)
    THEN Result(json_response([error |-> Str(<<"Invalid JSON body">>)], 400),
                tbl, <<>>, None, "none")
    ELSE IF ~has_get(req)
    THEN Result(Escapes("AttributeError"), tbl, <<>>, None, "none")
    ELSE IF falsy(body_get(req, "user_id"))
            \/ falsy(body_get(req, "request_type"))
    THEN Result(json_response(
                  [error |-> Str(<<"Missing required fields: user_id, request_type">>)],
                  400),
                tbl, <<>>, None, "none")
    ELSE Result(json_response(
                  [workflow_id |-> new_workflow_id(hex), started |-> PyTrue],
                  200),
                upsert_entity(tbl,
                    [PartitionKey |-> Str(TicketsPartition),
                     RowKey |-> new_workflow_id(hex),
                     user_id |-> body_get(req, "user_id")], "ok").table,
                <<"upsert_entity">>, new_workflow_id(hex), "ok")

start_provisioning_workflow(req, tbl, hex) ==
    IF get_json_raises(req)
    THEN Result(json_response([error |-> Str(<<"Invalid JSON body">>)], 400),
                tbl, <<>>, None, "none")
    ELSE IF ~has_get(req)
    THEN Result(Escapes("AttributeError"), tbl, <<>>, None, "none")
    ELSE IF falsy(body_get(req, "user_id"))
            \/ falsy(body_get(req, "request_type"))
    THEN Result(json_response(
                  [error |-> Str(<<"Missing required fields: user_id, request_type">>)],
                  400),
                tbl, <<>>, None, "none")
    ELSE Result(json_response(
                  [workflow_id |-> new_workflow_id(hex), started |-> PyTrue],
                  200),
                tbl, <<>>, new_workflow_id(hex), "none")

(***************************************************************************)
(* 5) run_gpt4o_advanced                                                   *)
(***************************************************************************)
\* How gpt4o_client.chat.completions.create can end: it returns a completion
\* whose first choice carries the text, or it raises.
CompletionOutcomes == {"answer", "error"}

completion_text == Str(<<"Respuesta del modelo">>)
completion_error == Str(<<"Connection error.">>)

\* The whole body is inside try/except Exception: the ValueError of
\* get_json and the AttributeError of body.get end in the 500 answer too.
run_gpt4o_advanced(req, tbl, outcome) ==
    IF get_json_raises(req)
    THEN Result(json_response([error |-> Str(<<"ValueError">>)], 500),
                tbl, <<>>, None, "none")
    ELSE IF ~has_get(req)
    THEN Result(json_response([error |-> Str(<<"AttributeError">>)], 500),
                tbl, <<>>, None, "none")
    ELSE IF falsy(body_get(req, "prompt"))
    THEN Result(json_response(
                  [error |-> Str(<<"El campo 'prompt' es obligatorio.">>)],
                  400),
                tbl, <<>>, None, "none")
    ELSE IF outcome = "answer"
    THEN Result(json_response([answer |-> completion_text], 200),
                tbl, <<"chat.completions.create">>, None, outcome)
    ELSE Result(json_response([error |-> completion_error], 500),
                tbl, <<"chat.completions.create">>, None, outcome)

(***************************************************************************)
(* Requests the clients can send and the content the table can hold when   *)
(* the application starts.                                                 *)
(***************************************************************************)
UserIds == {Str(<<"u1">>), Str(<<"u2">>)}

CreateBodies ==
    {InvalidJSON, NonObject} \cup
    {Object2("user_id", a, "issue_description", b) :
        a \in {Absent, Str(<<>>)} \cup UserIds,
        b \in {None, Str(<<>>), Str(<<"VPN caida">>)}}

\* Identifiers a client can ask about: every ticket id, one workflow id and
\* one ticket id spelled in lower case.
LookupIds ==
    TicketIds \cup {new_workflow_id(uuid_hex(11, 1)),
                    new_ticket_id_lower(uuid_hex(11, 1))}

StatusBodies ==
    {InvalidJSON, NonObject} \cup
    {Object1("ticket_id", a) : a \in {Absent, Str(<<>>)} \cup LookupIds}

NotificationBodies ==
    {InvalidJSON, NonObject} \cup
    {Object2("user_id", a, "message", b) :
        a \in {Absent, Str(<<"u1">>)},
        b \in {Str(<<>>), Str(<<"Su ticket fue creado">>)}}

WorkflowBodies ==
    {InvalidJSON, NonObject} \cup
    {Object2("user_id", a, "request_type", b) :
        a \in {Str(<<>>), Str(<<"u1">>)},
        b \in {Absent, Str(<<"laptop">>)}}

PromptBodies ==
    {InvalidJSON, NonObject} \cup
    {Object1("prompt", a) :
        a \in {Absent, Str(<<>>), Str(<<"Redacta un aviso">>)}}

\* Rows written before this execution: a ticket without a status property,
\* a ticket whose status was changed by another system, and a row with a
\* ticket's row key under another partition.
LegacyTicket ==
    [PartitionKey |-> Str(TicketsPartition),
     RowKey |-> new_ticket_id(uuid_hex(10, 1)),
     user_id |-> Str(<<"u0">>), issue_description |-> Str(<<"Impresora">>)]

ClosedTicket ==
    [PartitionKey |-> Str(TicketsPartition),
     RowKey |-> new_ticket_id(uuid_hex(10, 1)),
     user_id |-> Str(<<"u0">>), issue_description |-> Str(<<"Impresora">>),
     status |-> Str(<<"CLOSED">>)]

ArchivedTicket ==
    [PartitionKey |-> Str(<<"Archive">>),
     RowKey |-> new_ticket_id(uuid_hex(11, 1)),
     user_id |-> Str(<<"u0">>), issue_description |-> Str(<<"Correo">>),
     status |-> Str(<<"CLOSED">>)]

TableOf(entities) ==
    [k \in {entity_key(e) : e \in entities} |->
        CHOOSE e \in entities : entity_key(e) = k]

PriorTables ==
    {TableOf(a \cup b) :
        a \in {{}, {LegacyTicket}, {ClosedTicket}},
        b \in {{}, {ArchivedTicket}}}

(***************************************************************************)
(* State.                                                                  *)
(***************************************************************************)
VARIABLES
    table,      \* content of the table "Tickets"
    resp,       \* what the last handler run returned or raised
    last,       \* the last request and what its handler did
    created,    \* ticket ids returned by successful creations, in order
    stored0     \* number of rows the table held at start

vars == <<table, resp, last, created, stored0>>

NoRequest ==
    [endpoint |-> "none", body |-> InvalidJSON, calls |-> <<>>,
     generated |-> None, outcome |-> "none", pre |-> <<>>]

Init ==
    /\ table \in PriorTables
    /\ resp = Escapes("none")
    /\ last = [NoRequest EXCEPT !.pre = table]
    /\ created = <<>>
    /\ stored0 = Cardinality(DOMAIN table)

\* One request served by one handler: the handler's result becomes the state.
Serve(endpoint, req, r) ==
    /\ table' = r.table
    /\ resp' = r.resp
    /\ last' = [endpoint |-> endpoint, body |-> req, calls |-> r.calls,
                generated |-> r.generated, outcome |-> r.outcome,
                pre |-> table]
    /\ created' = IF endpoint = "create_ticket" /\ r.resp.status_code = 200
                  THEN Append(created, r.resp.body["ticket_id"])
                  ELSE created
    /\ UNCHANGED stored0

\* The uuid is drawn and the collaborator is called only by a request that
\* passes validation; for the others one run of the handler is all there is.
NoHex == uuid_hex(10, 1)

CreateTicket ==
    /\ Len(created) < MaxCreated
    /\ \E req \in CreateBodies :
          IF create_ticket(req, table, NoHex, "ok").generated = None
          THEN Serve("create_ticket", req,
                     create_ticket(req, table, NoHex, "ok"))
          ELSE \E hex \in uuid4_hex, outcome \in UpsertOutcomes :
                  Serve("create_ticket", req,
                        create_ticket(req, table, hex, outcome))

GetTicketStatus ==
    \E req \in StatusBodies :
        IF get_ticket_status(req, table, "answer").calls = <<>>
        THEN Serve("get_ticket_status", req,
                   get_ticket_status(req, table, "answer"))
        ELSE \E outcome \in ReadOutcomes :
                Serve("get_ticket_status", req,
                      get_ticket_status(req, table, outcome))

SendNotification ==
    \E req \in NotificationBodies :
        Serve("send_notification", req, send_notification(req, table))

StartProvisioningWorkflow ==
    \E req \in WorkflowBodies :
        IF start_provisioning_workflow(req, table, NoHex).generated = None
        THEN Serve("start_provisioning_workflow", req,
                   start_provisioning_workflow(req, table, NoHex))
        ELSE \E hex \in uuid4_hex :
                Serve("start_provisioning_workflow", req,
                      start_provisioning_workflow(req, table, hex))

RunGpt4oAdvanced ==
    \E req \in PromptBodies :
        IF run_gpt4o_advanced(req, table, "answer").calls = <<>>
        THEN Serve("run_gpt4o_advanced", req,
                   run_gpt4o_advanced(req, table, "answer"))
        ELSE \E outcome \in CompletionOutcomes :
                Serve("run_gpt4o_advanced", req,
                      run_gpt4o_advanced(req, table, outcome))

Next ==
    \/ CreateTicket
    \/ GetTicketStatus
    \/ SendNotification
    \/ StartProvisioningWorkflow
    \/ RunGpt4oAdvanced

Spec == Init /\ [][Next]_vars

(***************************************************************************)
(* Vocabulary of the properties.                                           *)
(***************************************************************************)
\* INC-[0-9A-F]{8}
MatchesTicketPattern(s) ==
    /\ Len(s) = 4 + HexPrefixLen
    /\ SubSeq(s, 1, 4) = <<"I", "N", "C", "-">>
    /\ \A i \in 5..(4 + HexPrefixLen) : s[i] \in UpperHexChars

TicketKey(id) == <<TicketsPartition, id.v>>

UpsertFailed == last.outcome \in {"error_not_applied", "error_applied"}

\* The answer a status lookup for id gets on the current table when the
\* store answers the read.
Lookup(id) == get_ticket_status(Object1("ticket_id", id), table, "answer").resp

Answered(code) == resp.exception = "none" /\ resp.status_code = code

OpenStatus(id) ==
    json_response([ticket_id |-> id, status |-> Str(<<"OPEN">>)], 200)

TicketNotFound == json_response([error |-> Str(<<"Ticket not found">>)], 404)

\* The request is a JSON object that lacks one of the two fields or carries
\* it empty.
MissingCreateField ==
    /\ last.body.kind = "object"
    /\ \/ falsy(body_get(last.body, "user_id"))
       \/ falsy(body_get(last.body, "issue_description"))

(***************************************************************************)
(* C1: create_ticket answers 200 with a ticket_id only when the upsert of  *)
(* that very ticket_id returned, and the row is then in the table; when    *)
(* the upsert raises, the answer is 500 and its body has only "error".     *)
(***************************************************************************)
C1_NoSuccessWithoutWrite ==
    last.endpoint = "create_ticket" =>
        /\ (resp.status_code = 200 \/ "ticket_id" \in DOMAIN resp.body) =>
              /\ Answered(200)
              /\ last.calls = <<"upsert_entity">>
              /\ last.outcome = "ok"
              /\ resp.body["ticket_id"] = last.generated
              /\ TicketKey(last.generated) \in DOMAIN table
              /\ table[TicketKey(last.generated)]["RowKey"] = last.generated
              /\ table[TicketKey(last.generated)]["user_id"]
                     = body_get(last.body, "user_id")
        /\ UpsertFailed =>
              /\ Answered(500)
              /\ DOMAIN resp.body = {"error"}

C1_Witness ==
    /\ last.endpoint = "create_ticket"
    /\ UpsertFailed
    /\ Answered(500)

(***************************************************************************)
(* C2: every ticket_id returned by a successful creation has the form      *)
(* INC- plus 8 upper-case hex characters, and in every later state a       *)
(* status lookup with it that the store answers returns 200 with status    *)
(* OPEN.                                                                   *)
(***************************************************************************)
C2_CreatedTicketsStayOpen ==
    /\ \A i \in 1..Len(created) :
          /\ MatchesTicketPattern(created[i].v)
          /\ Lookup(created[i]) = OpenStatus(created[i])
    /\ ( /\ last.endpoint = "get_ticket_status"
         /\ last.outcome = "answer"
         /\ \E i \in 1..Len(created) :
               body_get(last.body, "ticket_id") = created[i] )
       => resp = OpenStatus(body_get(last.body, "ticket_id"))

C2_Witness ==
    /\ last.endpoint = "get_ticket_status"
    /\ last.outcome = "answer"
    /\ Len(created) = MaxCreated
    /\ body_get(last.body, "ticket_id") = created[1]
    /\ created[1] # created[MaxCreated]
    /\ Answered(200)

(***************************************************************************)
(* C3, as claimed: whenever the upsert of a creation raises, the answer    *)
(* is 500 and a status lookup with the generated id returns 404.           *)
(***************************************************************************)
C3_FailedWriteNeverPersisted ==
    (last.endpoint = "create_ticket" /\ UpsertFailed) =>
        /\ Answered(500)
        /\ Lookup(last.generated).status_code = 404

(***************************************************************************)
(* C3, amended: whenever the upsert of a creation raises, the answer is    *)
(* 500; if the store did not apply the write the table is unchanged; and   *)
(* a status lookup with the generated id returns 404 "Ticket not found"    *)
(* exactly when the store did not apply the write and the id was not in    *)
(* the table before the request.                                           *)
(***************************************************************************)
C3_FailedWriteLeavesStore ==
    (last.endpoint = "create_ticket" /\ UpsertFailed) =>
        /\ Answered(500)
        /\ last.outcome = "error_not_applied" => table = last.pre
        /\ (Lookup(last.generated) = TicketNotFound)
              <=> ( /\ last.outcome = "error_not_applied"
                    /\ TicketKey(last.generated) \notin DOMAIN last.pre )

C3_Witness ==
    /\ last.endpoint = "create_ticket"
    /\ last.outcome = "error_not_applied"
    /\ TicketKey(last.generated) \notin DOMAIN last.pre
    /\ DOMAIN last.pre # {}
    /\ Answered(500)

(***************************************************************************)
(* C4: a create_ticket request whose JSON object lacks user_id or          *)
(* issue_description, or carries one of them empty, is answered 400, makes *)
(* no store call, leaves the table as it was and generates and returns no  *)
(* ticket id.                                                              *)
(***************************************************************************)
C4_InvalidCreateWritesNothing ==
    (last.endpoint = "create_ticket" /\ MissingCreateField) =>
        /\ Answered(400)
        /\ DOMAIN resp.body = {"error"}
        /\ last.calls = <<>>
        /\ last.generated = None
        /\ table = last.pre

C4_Witness ==
    /\ last.endpoint = "create_ticket"
    /\ last.body.kind = "object"
    /\ ~falsy(body_get(last.body, "user_id"))
    /\ falsy(body_get(last.body, "issue_description"))
    /\ Answered(400)
    /\ DOMAIN table # {}

(***************************************************************************)
(* C5, as claimed: every handler run ends by returning a JSON response     *)
(* with status 200, 400, 404 or 500; no exception leaves a handler.        *)
(***************************************************************************)
C5_NoExceptionEscapes ==
    last.endpoint # "none" =>
        /\ resp.exception = "none"
        /\ resp.mimetype = "application/json"
        /\ resp.status_code \in {200, 400, 404, 500}

(***************************************************************************)
(* C6, as claimed: on every endpoint a body that is not valid JSON is      *)
(* answered 400 with an error body and no outbound call is made.           *)
(***************************************************************************)
C6_InvalidJsonIs400 ==
    (last.endpoint # "none" /\ last.body = InvalidJSON) =>
        /\ Answered(400)
        /\ DOMAIN resp.body = {"error"}
        /\ last.calls = <<>>
        /\ table = last.pre

(***************************************************************************)
(* C7, as claimed: no request deletes or changes a row that is in the      *)
(* table.                                                                  *)
(***************************************************************************)
C7_TicketsNeverMutated ==
    [][\A k \in DOMAIN table : k \in DOMAIN table' /\ table'[k] = table[k]]_vars

(***************************************************************************)
(* C8, as claimed: the ticket ids returned by successful creations are     *)
(* pairwise distinct, and the table holds one more row per successful      *)
(* creation.                                                               *)
(***************************************************************************)
C8_DistinctTicketIds ==
    /\ \A i, j \in 1..Len(created) : i # j => created[i] # created[j]
    /\ Cardinality(DOMAIN table) = stored0 + Len(created)

(***************************************************************************)
(* C9: a status lookup with a non-empty ticket_id that the store answers   *)
(* returns 404 "Ticket not found" when the partition "Tickets" has no row  *)
(* with exactly that row key, and otherwise 200 with the requested id and  *)
(* the row's status property, or "UNKNOWN" when the row has none.          *)
(***************************************************************************)
C9_LookupReflectsStore ==
    ( /\ last.endpoint = "get_ticket_status"
      /\ last.body.kind = "object"
      /\ ~falsy(body_get(last.body, "ticket_id"))
      /\ last.outcome = "answer" )
    => LET id == body_get(last.body, "ticket_id")
       IN  IF TicketKey(id) \notin DOMAIN table
           THEN resp = TicketNotFound
           ELSE /\ Answered(200)
                /\ DOMAIN resp.body = {"ticket_id", "status"}
                /\ resp.body["ticket_id"] = id
                /\ resp.body["status"] =
                      IF "status" \in DOMAIN table[TicketKey(id)]
                      THEN table[TicketKey(id)]["status"]
                      ELSE Str(<<"UNKNOWN">>)

C9_Witness ==
    /\ last.endpoint = "get_ticket_status"
    /\ last.outcome = "answer"
    /\ Answered(200)
    /\ "status" \notin DOMAIN table[TicketKey(body_get(last.body, "ticket_id"))]
    /\ resp.body["status"] = Str(<<"UNKNOWN">>)

(***************************************************************************)
(* C10: a step changes the table only if it serves a create_ticket request *)
(* that passed validation, and a workflow id returned by                   *)
(* start_provisioning_workflow is not a row key of the table.              *)
(***************************************************************************)
C10_OnlyValidCreateWrites ==
    [][ /\ table' # table =>
             /\ last'.endpoint = "create_ticket"
             /\ last'.body.kind = "object"
             /\ ~falsy(body_get(last'.body, "user_id"))
             /\ ~falsy(body_get(last'.body, "issue_description"))
        /\ last'.endpoint \in {"get_ticket_status", "send_notification",
                               "start_provisioning_workflow",
                               "run_gpt4o_advanced"} =>
             /\ table' = table
             /\ last'.calls \in {<<>>, <<"get_entity">>,
                                 <<"chat.completions.create">>}
        /\ "workflow_id" \in DOMAIN resp'.body =>
             \A k \in DOMAIN table' : k[2] # resp'.body["workflow_id"].v
      ]_vars

C10_Witness ==
    /\ last.endpoint = "start_provisioning_workflow"
    /\ Answered(200)
    /\ "workflow_id" \in DOMAIN resp.body
    /\ Len(created) > 0
    /\ table = last.pre

====
